---- MODULE Spec2Model ----
(***************************************************************************)
(* Order fulfillment and secure delivery of FichasMalharia (src/app.py):   *)
(* checkout, the Mercado Pago webhook, the fulfillment dispatcher, the     *)
(* order-access page and the download gateway, run by parallel workers     *)
(* that share one database.  Every database query and every commit is one  *)
(* atomic step; what a handler holds between two steps is its worker's     *)
(* local state.                                                            *)
(***************************************************************************)
EXTENDS Integers, Sequences, FiniteSets, TLC

(***************************************************************************)
(* Bounds of the model.                                                    *)
(***************************************************************************)
NumWorkers == 2          \* parallel workers sharing the store
NumFichas == 2           \* catalog rows seeded by ensure_db that the model keeps
MaxPedidos == 1          \* orders the store may hold
MaxDownloadTokens == 2   \* rows of download_tokens
MaxAccessTokens == 2     \* rows of pedido_access_tokens
MaxTime == 2             \* the clock runs 0..MaxTime
MaxEdits == 1            \* catalog edits by the operator
\* Deployment configuration (environment variables read with os.getenv).
DownloadMax == 2         \* DOWNLOAD_MAX
DownloadTokenDays == 1   \* DOWNLOAD_TOKEN_DAYS, in clock ticks
PurchasePageDays == 1    \* PURCHASE_PAGE_DAYS, in clock ticks

FichaIds == 1..NumFichas

VARIABLES
    fichas,                \* table fichas: id -> row
    pedidos,               \* table pedidos: sequence of rows, id = index
    pedido_itens,          \* table pedido_itens
    download_tokens,       \* table download_tokens, token string = index
    pedido_access_tokens,  \* table pedido_access_tokens, token string = index
    cart,                  \* session["cart"]
    now,                   \* datetime.utcnow()
    mp_refs,               \* external references registered with the provider
    wk,                    \* per worker: position in its handler and its locals
    edits,                 \* catalog edits made so far
    paid_transitions,      \* per order: commits that took it from not-paid to paid
    dispatches,            \* per order: calls of gerar_links_e_enviar_email
    emails_sent,           \* per order: send_email calls that delivered
    redelivered,           \* per order: an approved delivery found it already paid
    redeemed               \* per download token: requests that passed every check

vars == <<fichas, pedidos, pedido_itens, download_tokens, pedido_access_tokens,
          cart, now, mp_refs, wk, edits, paid_transitions, dispatches,
          emails_sent, redelivered, redeemed>>

Workers == DOMAIN wk

store == <<pedidos, pedido_itens, download_tokens, pedido_access_tokens>>
ghosts == <<paid_transitions, dispatches, emails_sent, redelivered, redeemed>>

(***************************************************************************)
(* Strings.  A string is a sequence of characters, so that str() and int() *)
(* are computed and int() can fail.                                        *)
(***************************************************************************)
Digits == <<"0", "1", "2", "3", "4", "5", "6", "7", "8", "9">>

RECURSIVE str(_)
str(n) == IF n < 10 THEN <<Digits[n + 1]>>
          ELSE str(n \div 10) \o <<Digits[(n % 10) + 1]>>

DigitValue(c) == CHOOSE d \in 0..9 : Digits[d + 1] = c

IsNumeric(s) == s # <<>> /\ \A i \in 1..Len(s) : \E d \in 0..9 : Digits[d + 1] = s[i]

RECURSIVE int(_)
int(s) == IF Len(s) = 1 THEN DigitValue(s[1])
          ELSE 10 * int(SubSeq(s, 1, Len(s) - 1)) + DigitValue(s[Len(s)])

RECURSIVE lstrip(_)
lstrip(s) == IF s # <<>> /\ Head(s) = " " THEN lstrip(Tail(s)) ELSE s

RECURSIVE rstrip(_)
rstrip(s) == IF s # <<>> /\ s[Len(s)] = " " THEN rstrip(SubSeq(s, 1, Len(s) - 1)) ELSE s

strip(s) == rstrip(lstrip(s))

lower(s) == [i \in 1..Len(s) |-> IF s[i] = "A" THEN "a" ELSE s[i]]

RECURSIVE SumSeq(_)
SumSeq(s) == IF s = <<>> THEN 0 ELSE Head(s) + SumSeq(Tail(s))

(***************************************************************************)
(* The seeded catalog (FICHAS_MOCK through preco_to_centavos).             *)
(***************************************************************************)
SeedPrices == <<2990, 3990, 4990>>

Seed == [f \in FichaIds |->
            [titulo |-> "v1", preco_centavos |-> SeedPrices[f],
             file_key |-> TRUE, ativa |-> TRUE]]

None == 0          \* no row / no token / no response yet

\* A worker between requests.
Idle == [pc |-> "idle", kind |-> "none", payment_id |-> "", status |-> "",
         external_reference |-> <<>>, forged |-> "", pedido_id |-> None,
         tok |-> None, seen |-> 0, t0 |-> 0, ficha |-> None, todo |-> <<>>,
         resp |-> None]

\* A worker that starts serving a request of the given route.
Serving(route) == [Idle EXCEPT !.kind = route]

\* The handler returns (or aborts) with a status code: the response is ready.
Return(w, base, code) == wk' = [wk EXCEPT ![w] = [base EXCEPT !.pc = "reply", !.resp = code]]

\* What a worker that has been through several steps still holds when it answers.
Ending(w) == [Serving(wk[w].kind) EXCEPT !.status = wk[w].status,
                                         !.pedido_id = wk[w].pedido_id, !.tok = wk[w].tok]

IsIdle(w) == wk[w].pc = "idle"

\* No response is waiting to leave its worker.  Sending a response touches
\* nothing shared, so it is taken as the step right after the one that made it.
Quiet == \A w \in Workers : wk[w].pc # "reply"

Init ==
    /\ fichas = Seed
    /\ pedidos = <<>>
    /\ pedido_itens = <<>>
    /\ download_tokens = <<>>
    /\ pedido_access_tokens = <<>>
    /\ cart \in {<<>>, <<1, 2>>}   \* a new session, or one that added both fichas
    /\ now = 0
    /\ mp_refs = {}
    /\ wk = [w \in {1} |-> Idle]
    /\ edits = 0
    /\ paid_transitions = <<>>
    /\ dispatches = <<>>
    /\ emails_sent = <<>>
    /\ redelivered = <<>>
    /\ redeemed = <<>>

(***************************************************************************)
(* Environment: the clock, the operator editing the catalog, the cart.     *)
(***************************************************************************)
Tick ==
    /\ Quiet
    /\ now < MaxTime
    /\ now' = now + 1
    /\ UNCHANGED <<fichas, store, cart, mp_refs, wk, edits, ghosts>>

\* The operator changes one column of one catalog row.
CatalogEdit(f, col) ==
    /\ Quiet
    /\ edits < MaxEdits
    /\ edits' = edits + 1
    /\ fichas' = [fichas EXCEPT ![f] =
            CASE col = "preco_centavos" -> [@ EXCEPT !.preco_centavos = @ + 1000]
              [] col = "titulo" -> [@ EXCEPT !.titulo = "v2"]
              [] col = "file_key" -> [@ EXCEPT !.file_key = ~@]
              [] col = "ativa" -> [@ EXCEPT !.ativa = ~@]]
    /\ UNCHANGED <<store, cart, now, mp_refs, wk, ghosts>>

\* The response leaves the worker, which is free for the next request.
reply(w) ==
    /\ wk[w].pc = "reply"
    /\ wk' = [wk EXCEPT ![w] = Idle]
    /\ UNCHANGED <<fichas, store, cart, now, mp_refs, edits, ghosts>>

InCart(f) == \E i \in 1..Len(cart) : cart[i] = f

cart_add_route(w, f) ==
    /\ Quiet
    /\ IsIdle(w)
    /\ IF ~fichas[f].ativa
       THEN Return(w, Serving("cart_add"), 404) /\ UNCHANGED cart
       ELSE /\ cart' = IF InCart(f) THEN cart ELSE Append(cart, f)
            /\ Return(w, Serving("cart_add"), 302)
    /\ UNCHANGED <<fichas, store, now, mp_refs, edits, ghosts>>

cart_remove_route(w, f) ==
    /\ Quiet
    /\ IsIdle(w)
    /\ cart' = SelectSeq(cart, LAMBDA i : i # f)
    /\ Return(w, Serving("cart_remove"), 302)
    /\ UNCHANGED <<fichas, store, now, mp_refs, edits, ghosts>>

(***************************************************************************)
(* Mercado Pago webhook (mp_webhook).                                      *)
(***************************************************************************)
PaymentIds == {"101", "102"}
PaymentStatuses == {"approved", "pending", "rejected"}

\* What a callback may carry.  "" is an absent or empty value.  The payload is
\* the JSON body: an object (with "data" absent, an object or a scalar) or a
\* list.  status is what the sender wrote in the body about the payment.
EmptyPayload == [kind |-> "dict", data |-> "absent", data_id |-> "", id |-> ""]

Callback(args_data_id, args_id, payload, status) ==
    [args_data_id |-> args_data_id, args_id |-> args_id, payload |-> payload,
     status |-> status]

Callbacks ==
    { Callback("", "", EmptyPayload, "approved"),
      Callback("", "", [EmptyPayload EXCEPT !.kind = "list"], "approved"),
      Callback("", "", [EmptyPayload EXCEPT !.data = "scalar", !.id = "101"], "approved"),
      Callback("101", "", EmptyPayload, "approved"),
      Callback("", "102", EmptyPayload, "rejected"),
      Callback("", "", [EmptyPayload EXCEPT !.data = "dict", !.data_id = "101"], "rejected"),
      Callback("", "", [EmptyPayload EXCEPT !.id = "102"], "approved"),
      Callback("101", "102", [EmptyPayload EXCEPT !.id = "102"], "rejected") }

\* Lines 673-676: the payment id, or raised (AttributeError on a payload that is
\* no object, or whose "data" is a truthy scalar).
ExtractPaymentId(req) ==
    LET q == IF req.args_data_id # "" THEN req.args_data_id ELSE req.args_id
        b == req.payload
        d == IF b.data = "dict" THEN b.data_id ELSE ""
    IN  IF q # "" THEN [raised |-> FALSE, id |-> q]
        ELSE IF b.kind = "list" \/ b.data = "scalar" THEN [raised |-> TRUE, id |-> ""]
        ELSE [raised |-> FALSE, id |-> IF d # "" THEN d ELSE b.id]

\* Lines 671-679: take the payment id from the callback.
mp_webhook(w, req) ==
    LET ext == ExtractPaymentId(req)
        me == [Serving("webhook") EXCEPT !.payment_id = ext.id, !.forged = req.status]
    IN
    /\ Quiet
    /\ IsIdle(w)
    /\ IF ext.raised THEN Return(w, Serving("webhook"), 500)
       ELSE IF ext.id = "" THEN Return(w, Serving("webhook"), 200)
       ELSE wk' = [wk EXCEPT ![w] = [me EXCEPT !.pc = "wh_fetch"]]
    /\ UNCHANGED <<fichas, store, cart, now, mp_refs, edits, ghosts>>

\* What mp_fetch_payment may answer: it raises, or returns the provider's record.
ExternalRefs == {<<>>, <<"a", "b", "c">>, <<"0", "1">>}
                \cup {str(o) : o \in 1..(MaxPedidos + 1)}

FetchOutcomes ==
    {[ok |-> FALSE, status |-> "", external_reference |-> <<>>]}
    \cup [ok : {TRUE}, status : PaymentStatuses, external_reference : ExternalRefs]

\* The handler without its line 697: every delivery is taken as the first.
AlreadyPaidNever(row) == FALSE

\* Line 697: the order was already marked paid.
AlreadyPaid(row) == row.status = "paid"

\* A handler that believes what the callback's body says about the payment.
IsApprovedTrustingPayload(status, forged) == forged = "approved"

\* Line 700: what makes the handler mark the order paid.
IsApproved(status, forged) == status = "approved"

\* Lines 681-700: the provider's record, the order it names, the decision to write.
mp_webhook_fetch(w, pay) ==
    LET ref == pay.external_reference
        id == IF IsNumeric(ref) THEN int(ref) ELSE None
        found == id \in 1..Len(pedidos)
        me == [wk[w] EXCEPT !.status = pay.status, !.external_reference = ref,
                            !.pedido_id = id]
        \* what the worker still holds when it answers about an order it found
        out == [Serving("webhook") EXCEPT !.status = pay.status, !.pedido_id = id]
    IN
    /\ Quiet
    /\ wk[w].pc = "wh_fetch"
    /\ redelivered' = IF pay.ok /\ found /\ pedidos[id].status = "paid"
                         /\ pay.status = "approved"
                      THEN [redelivered EXCEPT ![id] = TRUE] ELSE redelivered
    /\ IF ~pay.ok THEN Return(w, Serving("webhook"), 200)
       ELSE IF ref = <<>> THEN Return(w, Serving("webhook"), 200)
       ELSE IF ~IsNumeric(ref) THEN Return(w, Serving("webhook"), 500)
       ELSE IF ~found THEN Return(w, Serving("webhook"), 200)
       ELSE IF AlreadyPaid(pedidos[id]) THEN Return(w, out, 200)
       ELSE IF IsApproved(pay.status, wk[w].forged)
            THEN wk' = [wk EXCEPT ![w] = [me EXCEPT !.pc = "wh_commit"]]
            ELSE Return(w, out, 200)
    /\ UNCHANGED <<fichas, store, cart, now, mp_refs, edits, paid_transitions,
                   dispatches, emails_sent, redeemed>>

\* Lines 701-702: what the handler writes to the order's row.
PaidRow(row, payment_id) == [row EXCEPT !.status = "paid", !.mp_payment_id = payment_id]

\* Lines 701-706: write, commit, call the dispatcher.
mp_webhook_commit(w) ==
    LET id == wk[w].pedido_id IN
    /\ Quiet
    /\ wk[w].pc = "wh_commit"
    /\ pedidos' = [pedidos EXCEPT ![id] = PaidRow(@, wk[w].payment_id)]
    /\ paid_transitions' = IF pedidos[id].status # "paid"
                           THEN [paid_transitions EXCEPT ![id] = @ + 1]
                           ELSE paid_transitions
    /\ wk' = [wk EXCEPT ![w] = [Serving("webhook") EXCEPT !.pc = "gl_start",
                                    !.status = wk[w].status, !.pedido_id = id,
                                    !.forged = wk[w].forged]]
    /\ UNCHANGED <<fichas, pedido_itens, download_tokens, pedido_access_tokens, cart,
                   now, mp_refs, edits, dispatches, emails_sent, redelivered, redeemed>>

(***************************************************************************)
(* Token issuers (get_or_create_pedido_access_token,                       *)
(* get_or_create_download_token): a query, then an insert and a commit.    *)
(***************************************************************************)
\* PedidoItem.query.filter_by(pedido_id=...): the catalog ids of an order's items.
ItemRows(id) == SelectSeq(pedido_itens, LAMBDA it : it.pedido_id = id)

ItemFichas(id) == [i \in 1..Len(ItemRows(id)) |-> ItemRows(id)[i].ficha_id]

\* .order_by(expira_em.desc()).first(): the row of the order with the latest
\* expiry.  Of two rows whose expiry falls in the same tick of the model's clock
\* the one inserted later expires later on the program's clock.
LatestAccessToken(id) ==
    LET rows == {i \in 1..Len(pedido_access_tokens) :
                    pedido_access_tokens[i].pedido_id = id}
    IN  IF rows = {} THEN None
        ELSE CHOOSE i \in rows : \A j \in rows :
                \/ pedido_access_tokens[j].expira_em < pedido_access_tokens[i].expira_em
                \/ /\ pedido_access_tokens[j].expira_em = pedido_access_tokens[i].expira_em
                   /\ j <= i

LatestDownloadToken(id, f) ==
    LET rows == {i \in 1..Len(download_tokens) :
                    download_tokens[i].pedido_id = id /\ download_tokens[i].ficha_id = f}
    IN  IF rows = {} THEN None
        ELSE CHOOSE i \in rows : \A j \in rows :
                \/ download_tokens[j].expira_em < download_tokens[i].expira_em
                \/ /\ download_tokens[j].expira_em = download_tokens[i].expira_em
                   /\ j <= i

\* Line 455 and line 482: the issuer's test that an existing token is still good.
AccessTokenStillValid(t, at) == t.expira_em > at

DownloadTokenStillValid(t, at) == t.expira_em > at /\ t.downloads < t.max_downloads

ReuseAccessToken(id) ==
    /\ LatestAccessToken(id) # None
    /\ AccessTokenStillValid(pedido_access_tokens[LatestAccessToken(id)], now)

\* An issuer that hands out the latest token of the scope whatever its state.
ReuseDownloadTokenWhateverState(id, f) == LatestDownloadToken(id, f) # None

ReuseDownloadToken(id, f) ==
    /\ LatestDownloadToken(id, f) # None
    /\ DownloadTokenStillValid(download_tokens[LatestDownloadToken(id, f)], now)

\* Lines 458-468: insert the new access token and commit.
pedido_access_token_insert(w) ==
    /\ Quiet
    /\ wk[w].pc = "pt_insert"
    /\ Len(pedido_access_tokens) < MaxAccessTokens
    /\ pedido_access_tokens' = Append(pedido_access_tokens,
            [token |-> Len(pedido_access_tokens) + 1, pedido_id |-> wk[w].pedido_id,
             expira_em |-> wk[w].t0 + PurchasePageDays])
    /\ wk' = [wk EXCEPT ![w].pc = "gl_items", ![w].t0 = 0]
    /\ UNCHANGED <<fichas, pedidos, pedido_itens, download_tokens, cart, now, mp_refs,
                   edits, ghosts>>

\* Lines 485-493: the row a new download token starts as.
NewDownloadToken(token, id, f, at) ==
    [token |-> token, pedido_id |-> id, ficha_id |-> f,
     expira_em |-> at + DownloadTokenDays, downloads |-> 0, max_downloads |-> DownloadMax]

\* An issuer that renews the scope's latest row in place when there is one.
download_token_insert_or_renew(w) ==
    LET old == LatestDownloadToken(wk[w].pedido_id, wk[w].ficha) IN
    /\ Quiet
    /\ wk[w].pc = "dt_insert"
    /\ IF old # None
       THEN /\ download_tokens' = [download_tokens EXCEPT ![old] =
                    NewDownloadToken(old, wk[w].pedido_id, wk[w].ficha, wk[w].t0)]
            /\ redeemed' = redeemed
       ELSE /\ Len(download_tokens) < MaxDownloadTokens
            /\ download_tokens' = Append(download_tokens,
                    NewDownloadToken(Len(download_tokens) + 1, wk[w].pedido_id,
                                     wk[w].ficha, wk[w].t0))
            /\ redeemed' = Append(redeemed, 0)
    /\ wk' = [wk EXCEPT ![w].pc = IF wk[w].kind = "webhook" THEN "gl_items" ELSE "mc_items",
                        ![w].t0 = 0, ![w].ficha = None]
    /\ UNCHANGED <<fichas, pedidos, pedido_itens, pedido_access_tokens, cart, now,
                   mp_refs, edits, paid_transitions, dispatches, emails_sent,
                   redelivered>>

\* Lines 485-496: insert the new download token and commit; back to the caller's loop.
download_token_insert(w) ==
    /\ Quiet
    /\ wk[w].pc = "dt_insert"
    /\ Len(download_tokens) < MaxDownloadTokens
    /\ download_tokens' = Append(download_tokens,
            NewDownloadToken(Len(download_tokens) + 1, wk[w].pedido_id, wk[w].ficha,
                             wk[w].t0))
    /\ redeemed' = Append(redeemed, 0)
    /\ wk' = [wk EXCEPT ![w].pc = IF wk[w].kind = "webhook" THEN "gl_items" ELSE "mc_items",
                        ![w].t0 = 0, ![w].ficha = None]
    /\ UNCHANGED <<fichas, pedidos, pedido_itens, pedido_access_tokens, cart, now,
                   mp_refs, edits, paid_transitions, dispatches, emails_sent,
                   redelivered>>

\* A loop that asks for a download token for every item, with a file or without.
ItemTurnAnyItem(w, loop) ==
    LET f == Head(wk[w].todo)
        id == wk[w].pedido_id
    IN  wk' = IF ReuseDownloadToken(id, f)
              THEN [wk EXCEPT ![w].todo = Tail(@), ![w].pc = loop]
              ELSE [wk EXCEPT ![w].todo = Tail(@), ![w].pc = "dt_insert",
                              ![w].ficha = f, ![w].t0 = now]

\* One turn of the loop over the order's items (lines 727-731 and 794-803): skip
\* an item whose catalog row has no file, reuse a still valid token, or go and
\* insert one.
ItemTurn(w, loop) ==
    LET f == Head(wk[w].todo)
        id == wk[w].pedido_id
    IN  wk' = IF ~fichas[f].file_key \/ ReuseDownloadToken(id, f)
              THEN [wk EXCEPT ![w].todo = Tail(@), ![w].pc = loop]
              ELSE [wk EXCEPT ![w].todo = Tail(@), ![w].pc = "dt_insert",
                              ![w].ficha = f, ![w].t0 = now]

(***************************************************************************)
(* Fulfillment dispatcher (gerar_links_e_enviar_email).                    *)
(***************************************************************************)
\* Lines 712-723 and 447-456: the order, its items, the access token query.
gerar_links_start(w) ==
    LET id == wk[w].pedido_id IN
    /\ Quiet
    /\ wk[w].pc = "gl_start"
    /\ dispatches' = [dispatches EXCEPT ![id] = @ + 1]
    /\ IF pedidos[id].status # "paid" \/ ItemRows(id) = <<>>
       THEN Return(w, Ending(w), 200)
       ELSE wk' = [wk EXCEPT ![w].todo = ItemFichas(id),
                            ![w].forged = "",
                            ![w].pc = IF ReuseAccessToken(id) THEN "gl_items"
                                      ELSE "pt_insert",
                            ![w].t0 = IF ReuseAccessToken(id) THEN 0 ELSE now]
    /\ UNCHANGED <<fichas, store, cart, now, mp_refs, edits, paid_transitions,
                   emails_sent, redelivered, redeemed>>

\* Lines 727-732: one item of the order.
gerar_links_item(w) ==
    /\ Quiet
    /\ wk[w].pc = "gl_items"
    /\ wk[w].todo # <<>>
    /\ ItemTurn(w, "gl_items")
    /\ UNCHANGED <<fichas, store, cart, now, mp_refs, edits, ghosts>>

\* A handler that answers 500 when the message was not delivered.
gerar_links_send_email_or_fail(w, delivered) ==
    /\ Quiet
    /\ wk[w].pc = "gl_items"
    /\ wk[w].todo = <<>>
    /\ emails_sent' = IF delivered THEN [emails_sent EXCEPT ![wk[w].pedido_id] = @ + 1]
                      ELSE emails_sent
    /\ Return(w, Ending(w), IF delivered THEN 200 ELSE 500)
    /\ UNCHANGED <<fichas, store, cart, now, mp_refs, edits, paid_transitions,
                   dispatches, redelivered, redeemed>>

\* Lines 734-770 and 710: compose the message, hand it to send_email (which
\* returns whether it was delivered), answer the provider.
gerar_links_send_email(w, delivered) ==
    /\ Quiet
    /\ wk[w].pc = "gl_items"
    /\ wk[w].todo = <<>>
    /\ emails_sent' = IF delivered THEN [emails_sent EXCEPT ![wk[w].pedido_id] = @ + 1]
                      ELSE emails_sent
    /\ Return(w, Ending(w), 200)
    /\ UNCHANGED <<fichas, store, cart, now, mp_refs, edits, paid_transitions,
                   dispatches, redelivered, redeemed>>

\* Lines 705-710: the dispatcher raises (a failed query or commit); the handler
\* logs it and still answers the provider.
gerar_links_raises(w) ==
    /\ Quiet
    /\ wk[w].kind = "webhook"
    /\ wk[w].pc \in {"pt_insert", "gl_items", "dt_insert"}
    /\ Return(w, Ending(w), 200)
    /\ UNCHANGED <<fichas, store, cart, now, mp_refs, edits, ghosts>>

(***************************************************************************)
(* Order-access page (minha_compra).                                       *)
(***************************************************************************)
\* Lines 777-788: the token, its expiry, the order.
minha_compra(w, token) ==
    /\ Quiet
    /\ IsIdle(w)
    /\ IF token \notin 1..Len(pedido_access_tokens) THEN Return(w, [Serving("minha_compra") EXCEPT !.tok = token], 404)
       ELSE LET pt == pedido_access_tokens[token] IN
            IF now > pt.expira_em THEN Return(w, [Serving("minha_compra") EXCEPT !.tok = token], 410)
            ELSE IF pedidos[pt.pedido_id].status # "paid" THEN Return(w, [Serving("minha_compra") EXCEPT !.tok = token], 403)
            ELSE wk' = [wk EXCEPT ![w] =
                    [Idle EXCEPT !.pc = "mc_items", !.kind = "minha_compra",
                        !.pedido_id = pt.pedido_id, !.tok = token,
                        !.todo = ItemFichas(pt.pedido_id)]]
    /\ UNCHANGED <<fichas, store, cart, now, mp_refs, edits, ghosts>>

\* Lines 794-812: one item of the order.
minha_compra_item(w) ==
    /\ Quiet
    /\ wk[w].pc = "mc_items"
    /\ wk[w].todo # <<>>
    /\ ItemTurn(w, "mc_items")
    /\ UNCHANGED <<fichas, store, cart, now, mp_refs, edits, ghosts>>

\* Lines 814-822: render the page.
minha_compra_render(w) ==
    /\ Quiet
    /\ wk[w].pc = "mc_items"
    /\ wk[w].todo = <<>>
    /\ Return(w, Ending(w), 200)
    /\ UNCHANGED <<fichas, store, cart, now, mp_refs, edits, ghosts>>

(***************************************************************************)
(* Download gateway (download).                                            *)
(***************************************************************************)
\* Line 833: the gateway's test that a token has expired.
DownloadExpired(t, at) == at > t.expira_em

\* A gateway that looks at the use counter before the expiry.
DownloadCheckCounterFirst(token) ==
    IF token \notin 1..Len(download_tokens) THEN 404
    ELSE LET t == download_tokens[token] IN
         IF t.downloads >= t.max_downloads THEN 429
         ELSE IF DownloadExpired(t, now) THEN 410
         ELSE IF t.pedido_id \notin 1..Len(pedidos)
                 \/ pedidos[t.pedido_id].status # "paid" THEN 403
         ELSE IF ~fichas[t.ficha_id].ativa \/ ~fichas[t.ficha_id].file_key THEN 404
         ELSE None

\* Lines 829-845: the status code of the first check that fails, None if none does.
DownloadCheck(token) ==
    IF token \notin 1..Len(download_tokens) THEN 404
    ELSE LET t == download_tokens[token] IN
         IF DownloadExpired(t, now) THEN 410
         ELSE IF t.downloads >= t.max_downloads THEN 429
         ELSE IF t.pedido_id \notin 1..Len(pedidos)
                 \/ pedidos[t.pedido_id].status # "paid" THEN 403
         ELSE IF ~fichas[t.ficha_id].ativa \/ ~fichas[t.ficha_id].file_key THEN 404
         ELSE None

\* Lines 829-845: the token row is loaded and checked.
download(w, token) ==
    /\ Quiet
    /\ IsIdle(w)
    /\ IF DownloadCheck(token) # None THEN Return(w, [Serving("download") EXCEPT !.tok = token], DownloadCheck(token))
       ELSE wk' = [wk EXCEPT ![w] =
                [Idle EXCEPT !.pc = "dl_commit", !.kind = "download",
                    !.tok = token, !.seen = download_tokens[token].downloads]]
    /\ UNCHANGED <<fichas, store, cart, now, mp_refs, edits, ghosts>>

\* A commit that leaves the counter as it was loaded.
IncrementedNot(seen, stored) == seen

\* Line 847: t.downloads += 1 on the loaded row: the value the commit writes.
Incremented(seen, stored) == seen + 1

StorageOutcomes == {"signed", "disabled", "raises"}

\* A gateway that counts a use only when the storage has signed the URL.
download_commit_if_signed(w, storage) ==
    LET token == wk[w].tok IN
    /\ Quiet
    /\ wk[w].pc = "dl_commit"
    /\ download_tokens' = IF storage = "signed"
                          THEN [download_tokens EXCEPT ![token].downloads =
                                    Incremented(wk[w].seen, @)]
                          ELSE download_tokens
    /\ redeemed' = [redeemed EXCEPT ![token] = @ + 1]
    /\ Return(w, Ending(w), IF storage = "signed" THEN 302 ELSE 500)
    /\ UNCHANGED <<fichas, pedidos, pedido_itens, pedido_access_tokens, cart, now,
                   mp_refs, edits, paid_transitions, dispatches, emails_sent,
                   redelivered>>

\* Lines 847-854: write the counter, commit, sign the URL.
download_commit(w, storage) ==
    LET token == wk[w].tok IN
    /\ Quiet
    /\ wk[w].pc = "dl_commit"
    /\ download_tokens' = [download_tokens EXCEPT ![token].downloads =
            Incremented(wk[w].seen, @)]
    /\ redeemed' = [redeemed EXCEPT ![token] = @ + 1]
    /\ Return(w, Ending(w), IF storage = "signed" THEN 302 ELSE 500)
    /\ UNCHANGED <<fichas, pedidos, pedido_itens, pedido_access_tokens, cart, now,
                   mp_refs, edits, paid_transitions, dispatches, emails_sent,
                   redelivered>>

(***************************************************************************)
(* Checkout (checkout, mp_create_preference).                              *)
(***************************************************************************)
Emails == {<<>>, <<"a">>, <<" ", "A", "@", "b">>, <<"@">>}

FichaSeq == [i \in 1..NumFichas |-> i]

\* Line 615: the active catalog rows whose id is in the cart.
CartFichas == SelectSeq(FichaSeq, LAMBDA f : InCart(f) /\ fichas[f].ativa)

\* A total taken from the catalog's seed prices instead of the rows' prices.
OrderTotalSeedPrices(fs) == SumSeq([i \in 1..Len(fs) |-> SeedPrices[fs[i]]])

\* Line 620: the total of an order made of these catalog rows.
OrderTotal(fs) == SumSeq([i \in 1..Len(fs) |-> fichas[fs[i]].preco_centavos])

\* Lines 627-635: the line items, snapshots of the catalog rows.
OrderItems(id, fs) ==
    [i \in 1..Len(fs) |->
        [pedido_id |-> id, ficha_id |-> fs[i], titulo_snapshot |-> fichas[fs[i]].titulo,
         preco_centavos_snapshot |-> fichas[fs[i]].preco_centavos]]

\* Lines 602-637: validate, create the order and its items, commit.
checkout(w, form_email, mp_enabled) ==
    LET email == lower(strip(form_email))
        id == Len(pedidos) + 1
    IN
    /\ Quiet
    /\ IsIdle(w)
    /\ IF ~mp_enabled
       THEN Return(w, Serving("checkout"), 500) /\ UNCHANGED <<store, ghosts>>
       ELSE IF email = <<>> \/ ~(\E i \in 1..Len(email) : email[i] = "@")
                \/ cart = <<>> \/ CartFichas = <<>>
       THEN Return(w, Serving("checkout"), 302) /\ UNCHANGED <<store, ghosts>>
       ELSE /\ Len(pedidos) < MaxPedidos
            /\ pedidos' = Append(pedidos,
                    [email |-> email, status |-> "pending",
                     total_centavos |-> OrderTotal(CartFichas),
                     mp_preference_id |-> "", mp_payment_id |-> ""])
            /\ pedido_itens' = pedido_itens \o OrderItems(id, CartFichas)
            /\ paid_transitions' = Append(paid_transitions, 0)
            /\ dispatches' = Append(dispatches, 0)
            /\ emails_sent' = Append(emails_sent, 0)
            /\ redelivered' = Append(redelivered, FALSE)
            /\ wk' = [wk EXCEPT ![w] =
                    [Idle EXCEPT !.pc = "co_pref", !.kind = "checkout",
                                       !.pedido_id = id]]
            /\ UNCHANGED <<download_tokens, pedido_access_tokens, redeemed>>
    /\ UNCHANGED <<fichas, cart, now, mp_refs, edits>>

PreferenceOutcomes == {"created", "raises", "no_init_point"}

\* A checkout that empties the cart before it asks for the preference.
checkout_preference_cart_first(w, outcome) ==
    LET id == wk[w].pedido_id IN
    /\ Quiet
    /\ wk[w].pc = "co_pref"
    /\ cart' = <<>>
    /\ IF outcome = "raises"
       THEN Return(w, Ending(w), 500) /\ UNCHANGED <<pedidos, mp_refs>>
       ELSE /\ mp_refs' = mp_refs \cup {str(id)}
            /\ pedidos' = [pedidos EXCEPT ![id].mp_preference_id = "pref"]
            /\ Return(w, Ending(w), IF outcome = "created" THEN 302 ELSE 500)
    /\ UNCHANGED <<fichas, pedido_itens, download_tokens, pedido_access_tokens, now,
                   edits, ghosts>>

\* Lines 639-649 and 380-400: create the preference with the order's id as
\* external_reference, record its id, clear the cart, redirect.
checkout_preference(w, outcome) ==
    LET id == wk[w].pedido_id IN
    /\ Quiet
    /\ wk[w].pc = "co_pref"
    /\ IF outcome = "raises"
       THEN Return(w, Ending(w), 500) /\ UNCHANGED <<pedidos, cart, mp_refs>>
       ELSE /\ mp_refs' = mp_refs \cup {str(id)}
            /\ pedidos' = [pedidos EXCEPT ![id].mp_preference_id = "pref"]
            /\ cart' = <<>>
            /\ Return(w, Ending(w), IF outcome = "created" THEN 302 ELSE 500)
    /\ UNCHANGED <<fichas, pedido_itens, download_tokens, pedido_access_tokens, now,
                   edits, ghosts>>

(***************************************************************************)
(* The system.                                                             *)
(***************************************************************************)
CatalogColumns == {"preco_centavos", "titulo", "file_key", "ativa"}

InitBuy == Init /\ cart = <<1, 2>>

Next ==
    \/ Tick
    \/ \E f \in FichaIds, col \in {"file_key", "ativa"} : CatalogEdit(f, col)
    \/ \E w \in Workers : reply(w)
    \/ \E w \in Workers, e \in {<<>>, <<" ", "A", "@", "b">>}, on \in BOOLEAN :
            checkout(w, e, on)
    \/ \E w \in Workers, o \in PreferenceOutcomes : checkout_preference(w, o)
    \/ \E w \in Workers, req \in Callbacks : mp_webhook(w, req)
    \/ \E w \in Workers, pay \in FetchOutcomes : mp_webhook_fetch(w, pay)
    \/ \E w \in Workers : mp_webhook_commit(w)
    \/ \E w \in Workers : gerar_links_start(w)
    \/ \E w \in Workers : pedido_access_token_insert(w)
    \/ \E w \in Workers : gerar_links_item(w)
    \/ \E w \in Workers : download_token_insert(w)
    \/ \E w \in Workers, d \in BOOLEAN : gerar_links_send_email(w, d)
    \/ \E w \in Workers : gerar_links_raises(w)
    \/ \E w \in Workers, t \in 0..MaxAccessTokens : minha_compra(w, t)
    \/ \E w \in Workers : minha_compra_item(w)
    \/ \E w \in Workers : minha_compra_render(w)
    \/ \E w \in Workers, t \in 0..MaxDownloadTokens : download(w, t)
    \/ \E w \in Workers, st \in StorageOutcomes : download_commit(w, st)

\* The whole path of a purchase, one request after another: the seeded
\* database and a session whose cart holds both seeded fichas.
Spec == InitBuy /\ [][Next]_vars

\* The shop: the cart, the checkout and the operator editing the catalog, from
\* the seeded database and an empty cart.
InitShop == Init /\ cart = <<>>

NextShop ==
    \/ \E f \in FichaIds, col \in CatalogColumns : CatalogEdit(f, col)
    \/ \E w \in Workers : reply(w)
    \/ \E w \in Workers, f \in FichaIds : cart_add_route(w, f)
    \/ \E w \in Workers, f \in FichaIds : cart_remove_route(w, f)
    \/ \E w \in Workers, e \in Emails, on \in BOOLEAN : checkout(w, e, on)
    \/ \E w \in Workers, o \in PreferenceOutcomes : checkout_preference(w, o)

SpecShop == InitShop /\ [][NextShop]_vars

\* The store after one checkout of both seeded fichas, served by parallel workers.
InitPar ==
    /\ fichas = Seed
    /\ pedidos = <<[email |-> <<"a", "@", "b">>, status |-> "pending",
                    total_centavos |-> 6980, mp_preference_id |-> "pref",
                    mp_payment_id |-> ""]>>
    /\ pedido_itens = [f \in FichaIds |->
            [pedido_id |-> 1, ficha_id |-> f, titulo_snapshot |-> "v1",
             preco_centavos_snapshot |-> SeedPrices[f]]]
    /\ download_tokens = <<>>
    /\ pedido_access_tokens = <<>>
    /\ cart = <<>>
    /\ now = 0
    /\ mp_refs = {str(1)}
    /\ wk = [w \in 1..NumWorkers |-> Idle]
    /\ edits = 0
    /\ paid_transitions = <<0>>
    /\ dispatches = <<0>>
    /\ emails_sent = <<0>>
    /\ redelivered = <<FALSE>>
    /\ redeemed = <<>>

NextPay ==
    \/ Tick
    \/ \E w \in Workers : reply(w)
    \/ \E w \in Workers, req \in Callbacks : mp_webhook(w, req)
    \/ \E w \in Workers, pay \in FetchOutcomes : mp_webhook_fetch(w, pay)
    \/ \E w \in Workers : mp_webhook_commit(w)
    \/ \E w \in Workers : gerar_links_start(w)
    \/ \E w \in Workers : pedido_access_token_insert(w)
    \/ \E w \in Workers : gerar_links_item(w)
    \/ \E w \in Workers : download_token_insert(w)
    \/ \E w \in Workers, d \in BOOLEAN : gerar_links_send_email(w, d)
    \/ \E w \in Workers : gerar_links_raises(w)

\* Parallel webhook deliveries for a pending order.
SpecPay == InitPar /\ [][NextPay]_vars

\* The store after that order was paid and fulfilled at time 0.
InitDl ==
    /\ fichas = Seed
    /\ pedidos = <<[email |-> <<"a", "@", "b">>, status |-> "paid",
                    total_centavos |-> 6980, mp_preference_id |-> "pref",
                    mp_payment_id |-> "101"]>>
    /\ pedido_itens = [f \in FichaIds |->
            [pedido_id |-> 1, ficha_id |-> f, titulo_snapshot |-> "v1",
             preco_centavos_snapshot |-> SeedPrices[f]]]
    /\ download_tokens = [f \in FichaIds |-> NewDownloadToken(f, 1, f, 0)]
    /\ pedido_access_tokens = <<[token |-> 1, pedido_id |-> 1,
                                 expira_em |-> PurchasePageDays]>>
    /\ cart = <<>>
    /\ now = 0
    /\ mp_refs = {str(1)}
    /\ wk = [w \in 1..NumWorkers |-> Idle]
    /\ edits = 0
    /\ paid_transitions = <<1>>
    /\ dispatches = <<1>>
    /\ emails_sent = <<1>>
    /\ redelivered = <<FALSE>>
    /\ redeemed = [f \in FichaIds |-> 0]

NextDl ==
    \/ Tick
    \/ \E w \in Workers : reply(w)
    \/ \E w \in Workers, t \in 0..MaxDownloadTokens : download(w, t)
    \/ \E w \in Workers, st \in StorageOutcomes : download_commit(w, st)

\* Parallel downloads with the tokens of a fulfilled order.
SpecDl == InitDl /\ [][NextDl]_vars

\* The store after that order was paid at time 0 by a delivery whose dispatcher
\* inserted the access token and raised before any download token.
InitPage ==
    /\ fichas = Seed
    /\ pedidos = <<[email |-> <<"a", "@", "b">>, status |-> "paid",
                    total_centavos |-> 6980, mp_preference_id |-> "pref",
                    mp_payment_id |-> "101"]>>
    /\ pedido_itens = [f \in FichaIds |->
            [pedido_id |-> 1, ficha_id |-> f, titulo_snapshot |-> "v1",
             preco_centavos_snapshot |-> SeedPrices[f]]]
    /\ download_tokens = <<>>
    /\ pedido_access_tokens = <<[token |-> 1, pedido_id |-> 1,
                                 expira_em |-> PurchasePageDays]>>
    /\ cart = <<>>
    /\ now = 0
    /\ mp_refs = {str(1)}
    /\ wk = [w \in 1..NumWorkers |-> Idle]
    /\ edits = 0
    /\ paid_transitions = <<1>>
    /\ dispatches = <<1>>
    /\ emails_sent = <<0>>
    /\ redelivered = <<FALSE>>
    /\ redeemed = <<>>

NextPage ==
    \/ Tick
    \/ \E w \in Workers : reply(w)
    \/ \E w \in Workers, t \in 0..MaxAccessTokens : minha_compra(w, t)
    \/ \E w \in Workers : minha_compra_item(w)
    \/ \E w \in Workers : download_token_insert(w)
    \/ \E w \in Workers : minha_compra_render(w)

\* Parallel views of the order-access page of that order.
SpecPage == InitPage /\ [][NextPage]_vars

(***************************************************************************)
(* Properties.                                                             *)
(***************************************************************************)
Orders == 1..Len(pedidos)
Tokens == 1..Len(download_tokens)

\* Worker w has just answered an approved delivery for order o.
ApprovedDone(w, o) ==
    /\ wk[w].pc = "reply"
    /\ wk[w].kind = "webhook"
    /\ wk[w].pedido_id = o
    /\ wk[w].status = "approved"

\* C1: with deliveries served one after another, every order is taken from
\* pending to paid at most once and the dispatcher is called at most once;
\* once an approved delivery for the order has been answered, however many
\* came, both have happened exactly once and at most one e-mail went out.
C1_ExactlyOnce ==
    \A o \in Orders :
        /\ paid_transitions[o] <= 1
        /\ dispatches[o] <= 1
        /\ emails_sent[o] <= 1
        /\ \A w \in Workers : ApprovedDone(w, o) =>
                /\ pedidos[o].status = "paid"
                /\ paid_transitions[o] = 1
                /\ dispatches[o] = 1
        /\ (pedidos[o].status = "paid" /\ \A w \in Workers : IsIdle(w)) =>
                paid_transitions[o] = 1 /\ dispatches[o] = 1

\* A second approved delivery for an order has been answered.
C1_Witness ==
    \E o \in Orders, w \in Workers : ApprovedDone(w, o) /\ redelivered[o]

\* C2: under parallel deliveries at most one of them finds the order not yet
\* paid, so the dispatcher runs at most once for an order and at most one
\* e-mail is sent.
C2_DispatchAtMostOnce ==
    \A o \in Orders : dispatches[o] <= 1 /\ emails_sent[o] <= 1

\* C3: under parallel downloads the requests that pass the checks of a token
\* never outnumber its max_downloads.
C3_GrantsWithinCeiling ==
    \A t \in Tokens : redeemed[t] <= download_tokens[t].max_downloads

\* C4: a download token whose catalog item is active and has a file is
\* accepted by the gateway exactly when now < expiry, its counter is below its
\* ceiling and its order is paid (so a request at now = expiry is refused), and
\* the issuer's test of an existing token agrees with the gateway's.
C4_ValidIffUnexpiredUnusedPaid ==
    \A t \in Tokens :
        LET row == download_tokens[t] IN
        (fichas[row.ficha_id].ativa /\ fichas[row.ficha_id].file_key) =>
            /\ DownloadCheck(t) = None <=>
                    /\ now < row.expira_em
                    /\ row.downloads < row.max_downloads
                    /\ pedidos[row.pedido_id].status = "paid"
            /\ DownloadTokenStillValid(row, now) <=>
                    (~DownloadExpired(row, now) /\ row.downloads < row.max_downloads)

\* C5: an order's status only moves forward (pending to paid or cancelled, paid
\* to nothing else), whatever request is served, and a delivery that finds its
\* order paid answers 200 at once and writes nothing.
C5_StatusForwardOnly ==
    [][ /\ Len(pedidos') >= Len(pedidos)
        /\ \A o \in Orders :
            /\ pedidos[o].status = "paid" => pedidos'[o].status = "paid"
            /\ pedidos[o].status = "pending" =>
                    pedidos'[o].status \in {"pending", "paid", "cancelled"}
            /\ \A w \in Workers :
                (/\ wk[w].pc = "wh_fetch"
                 /\ wk'[w].pc # "wh_fetch"
                 /\ wk'[w].pedido_id = o
                 /\ pedidos[o].status = "paid") =>
                    /\ wk'[w].pc = "reply"
                    /\ wk'[w].resp = 200
                    /\ store' = store ]_vars

\* An approved delivery and a rejected one have both been answered for an order
\* that was already paid.
C5_Witness ==
    \E o \in Orders, w \in Workers :
        /\ redelivered[o]
        /\ pedidos[o].status = "paid"
        /\ wk[w].pc = "reply" /\ wk[w].kind = "webhook" /\ wk[w].resp = 200
        /\ wk[w].pedido_id = o /\ wk[w].status = "rejected"

\* C6: a delivery from which the handler took a payment id is answered 200,
\* whatever the provider returns and whatever the dispatcher does.
C6_AlwaysAcknowledged ==
    [][ \A w \in Workers :
            (/\ wk[w].kind = "webhook"
             /\ wk[w].payment_id # ""
             /\ wk'[w].pc = "reply") => wk'[w].resp = 200 ]_vars

Refusal(w) == IF wk'[w].pc = "reply" THEN wk'[w].resp ELSE None

TakesDownload(w) == IsIdle(w) /\ wk'[w].kind = "download"

\* C8: the gateway refuses in a fixed order: 404 for an unknown token, else 410
\* for one past its expiry whatever its counter, else 429 for one at its
\* ceiling whatever its expiry, else 403 for an unpaid order, else 404 for an
\* inactive item or one without a file; a refusal changes no token's counter
\* and no order.
C8_RefusalPrecedence ==
    [][ \A w \in Workers : TakesDownload(w) =>
            LET tok == wk'[w].tok
                known == tok \in Tokens
                t == download_tokens[tok]
                expired == now > t.expira_em
                exhausted == t.downloads >= t.max_downloads
                paid == t.pedido_id \in Orders /\ pedidos[t.pedido_id].status = "paid"
                file == fichas[t.ficha_id].ativa /\ fichas[t.ficha_id].file_key
            IN  /\ ~known => Refusal(w) = 404
                /\ (known /\ expired) => Refusal(w) = 410
                /\ (known /\ ~expired /\ exhausted) => Refusal(w) = 429
                /\ (known /\ ~expired /\ ~exhausted /\ ~paid) => Refusal(w) = 403
                /\ (known /\ ~expired /\ ~exhausted /\ paid /\ ~file) => Refusal(w) = 404
                /\ Refusal(w) # None =>
                        /\ download_tokens' = download_tokens
                        /\ pedidos' = pedidos
                        /\ redeemed' = redeemed ]_vars

\* A token both past its expiry and at its ceiling has been refused with 410.
C8_Witness ==
    \E w \in Workers :
        /\ wk[w].pc = "reply" /\ wk[w].kind = "download" /\ wk[w].resp = 410
        /\ wk[w].tok \in Tokens
        /\ download_tokens[wk[w].tok].downloads >= download_tokens[wk[w].tok].max_downloads

\* A token that is not past its expiry, of a paid order, of an active item with a file.
Redeemable(t) ==
    /\ now <= t.expira_em
    /\ t.pedido_id \in Orders /\ pedidos[t.pedido_id].status = "paid"
    /\ fichas[t.ficha_id].ativa /\ fichas[t.ficha_id].file_key

\* C9: with requests served one after another, a redeemable token with ceiling
\* C is granted while its counter is below C and each grant raises the counter
\* by exactly 1 (answering 302 when the storage signs the URL); at C the
\* request is refused with 429 and the counter stays at C; so the counter
\* equals the number of grants and never passes C.  An unknown token gets 404.
C9_CeilingRedemptions ==
    [][ /\ \A w \in Workers : TakesDownload(w) =>
            LET tok == wk'[w].tok
                t == download_tokens[tok]
            IN  /\ tok \notin Tokens => Refusal(w) = 404
                /\ (tok \in Tokens /\ Redeemable(t)) =>
                        IF t.downloads < t.max_downloads
                        THEN wk'[w].pc = "dl_commit"
                        ELSE /\ Refusal(w) = 429
                             /\ download_tokens' = download_tokens
                             /\ t.downloads = t.max_downloads
        /\ \A w \in Workers : (wk[w].pc = "dl_commit" /\ wk'[w] # wk[w]) =>
            LET tok == wk[w].tok IN
            /\ download_tokens'[tok].downloads = download_tokens[tok].downloads + 1
            /\ \A u \in Tokens \ {tok} : download_tokens'[u] = download_tokens[u]
            /\ wk'[w].pc = "reply" /\ wk'[w].resp \in {302, 500}
        /\ \A u \in 1..Len(download_tokens') :
            /\ download_tokens'[u].downloads = redeemed'[u]
            /\ download_tokens'[u].downloads <= download_tokens'[u].max_downloads ]_vars

\* After C grants, the first of them 302, a redeemable token has been refused
\* with 429.
C9_Witness ==
    \E w \in Workers :
        /\ wk[w].pc = "reply" /\ wk[w].kind = "download" /\ wk[w].resp = 429
        /\ wk[w].tok \in Tokens
        /\ Redeemable(download_tokens[wk[w].tok])
        /\ redeemed[wk[w].tok] = download_tokens[wk[w].tok].max_downloads
        /\ download_tokens[wk[w].tok].downloads = download_tokens[wk[w].tok].max_downloads

\* The snapshot prices of the line items of order o.
SnapshotPrices(o) ==
    [i \in 1..Len(ItemRows(o)) |-> ItemRows(o)[i].preco_centavos_snapshot]

\* The catalog's prices today of the items of order o.
CatalogPrices(o) ==
    [i \in 1..Len(ItemRows(o)) |-> fichas[ItemRows(o)[i].ficha_id].preco_centavos]

\* C10: every order's total is the sum of its line items' snapshot prices, from
\* its creation on; no step changes the total of an existing order or an
\* existing line item, whatever is edited in the catalog.
C10_TotalIsSnapshotSum ==
    [][ /\ \A o \in 1..Len(pedidos') :
            /\ pedidos'[o].total_centavos =
                    SumSeq([i \in 1..Len(SnapshotPrices(o)') |-> SnapshotPrices(o)'[i]])
            /\ Len(SnapshotPrices(o)') >= 1
        /\ \A o \in Orders : pedidos'[o].total_centavos = pedidos[o].total_centavos
        /\ Len(pedido_itens') >= Len(pedido_itens)
        /\ \A i \in 1..Len(pedido_itens) : pedido_itens'[i] = pedido_itens[i] ]_vars

\* The price of an item of an order was raised after the order was made: the
\* order's total is still the sum of its snapshots and no longer the catalog's.
C10_Witness ==
    \E o \in Orders :
        /\ pedidos[o].total_centavos = SumSeq(SnapshotPrices(o))
        /\ pedidos[o].total_centavos # SumSeq(CatalogPrices(o))

\* Worker w has just answered a delivery without having found an order: no
\* payment id was taken, the lookup failed, the record has no reference, or the
\* reference names no order.
AnswersUnresolved(w) ==
    /\ wk[w].pc \in {"idle", "wh_fetch"}
    /\ wk'[w].kind = "webhook"
    /\ wk'[w].pc = "reply"
    /\ wk'[w].pedido_id = None

\* C11: a delivery that is not resolved to an existing order is answered 200
\* and changes no order, mints no token and sends no e-mail.
C11_UnresolvedIsAcknowledgedNoop ==
    [][ \A w \in Workers : AnswersUnresolved(w) =>
            /\ wk'[w].resp = 200
            /\ store' = store
            /\ emails_sent' = emails_sent
            /\ dispatches' = dispatches ]_vars

\* The download tokens of order o for catalog item f, and its access tokens.
TokensFor(o, f) ==
    {t \in Tokens : download_tokens[t].pedido_id = o /\ download_tokens[t].ficha_id = f}

AccessTokensFor(o) ==
    {t \in 1..Len(pedido_access_tokens) : pedido_access_tokens[t].pedido_id = o}

\* The catalog item f has had its file since it was seeded (one edit of the
\* column would have taken it away).
FileKept(f) == fichas[f].file_key /\ edits <= 1

\* C12: the dispatcher of the first approved delivery of an order asks for a
\* download token for each line item whose catalog item has a file and for no
\* other; each token it inserts starts with counter 0 and the configured
\* ceiling; when it has gone through the k items the order has exactly one
\* access token and at most one download token per item, exactly one (so k in
\* all) where the items kept their files.
C12_TokensOfFirstApproval ==
    [][ \A w \in Workers : (wk[w].kind = "webhook" /\ wk'[w] # wk[w]) =>
            LET o == wk[w].pedido_id IN
            /\ (wk[w].pc = "gl_items" /\ wk[w].todo # <<>> /\ wk'[w].pc # "reply") =>
                    LET f == Head(wk[w].todo) IN
                    /\ download_tokens' = download_tokens
                    /\ ~fichas[f].file_key => wk'[w].pc = "gl_items"
                    /\ (fichas[f].file_key /\ TokensFor(o, f) = {}) =>
                            wk'[w].pc = "dt_insert" /\ wk'[w].ficha = f
            /\ (wk[w].pc = "dt_insert" /\ wk'[w].pc # "reply") =>
                    /\ Len(download_tokens') = Len(download_tokens) + 1
                    /\ SubSeq(download_tokens', 1, Len(download_tokens)) = download_tokens
                    /\ LET t == download_tokens'[Len(download_tokens')] IN
                        /\ t.pedido_id = o /\ t.ficha_id = wk[w].ficha
                        /\ t.downloads = 0 /\ t.max_downloads = DownloadMax
            /\ (wk[w].pc = "gl_items" /\ wk[w].todo = <<>> /\ wk'[w].pc = "reply") =>
                    /\ Cardinality(AccessTokensFor(o)) = 1
                    /\ \A i \in 1..Len(ItemFichas(o)) :
                        LET f == ItemFichas(o)[i] IN
                        /\ Cardinality(TokensFor(o, f)) <= 1
                        /\ FileKept(f) => Cardinality(TokensFor(o, f)) = 1
                        /\ \A t \in TokensFor(o, f) :
                            /\ download_tokens[t].downloads = 0
                            /\ download_tokens[t].max_downloads = DownloadMax
                    /\ \A t \in Tokens : download_tokens[t].pedido_id = o =>
                        \E i \in 1..Len(ItemFichas(o)) :
                            download_tokens[t].ficha_id = ItemFichas(o)[i] ]_vars

\* The first approved delivery of an order with two items has been answered: two
\* download tokens, one per item, and one access token exist for it.
C12_Witness ==
    \E o \in Orders, w \in Workers :
        /\ ApprovedDone(w, o) /\ ~redelivered[o]
        /\ dispatches[o] = 1
        /\ Len(ItemFichas(o)) = 2
        /\ \A i \in 1..2 : Cardinality(TokensFor(o, ItemFichas(o)[i])) = 1
        /\ Cardinality(AccessTokensFor(o)) = 1

\* The tokens of a scope that the issuer would still hand out.
ValidTokensFor(o, f) ==
    {t \in TokensFor(o, f) : DownloadTokenStillValid(download_tokens[t], now)}

ValidAccessTokensFor(o) ==
    {t \in AccessTokensFor(o) : AccessTokenStillValid(pedido_access_tokens[t], now)}

\* C13: under every interleaving an order has at most one still valid access
\* token and at most one still valid download token per catalog item, and a
\* token is inserted only when the scope has no still valid one.
C13_OneValidTokenPerScope ==
    [][ /\ \A o \in Orders :
            /\ Cardinality(ValidAccessTokensFor(o)') <= 1
            /\ \A f \in FichaIds : Cardinality(ValidTokensFor(o, f)') <= 1
        /\ Len(download_tokens') > Len(download_tokens) =>
            LET t == download_tokens'[Len(download_tokens')] IN
            ValidTokensFor(t.pedido_id, t.ficha_id) = {}
        /\ Len(pedido_access_tokens') > Len(pedido_access_tokens) =>
            LET t == pedido_access_tokens'[Len(pedido_access_tokens')] IN
            ValidAccessTokensFor(t.pedido_id) = {} ]_vars

\* C14: a delivery whose provider record is not approved, for an existing
\* pending order, is answered 200 at once: the order stays pending with no
\* payment reference, the dispatcher is not called, no token is inserted and no
\* e-mail is sent; the answer given, the worker is free again.
C14_NotApprovedChangesNothing ==
    [][ \A w \in Workers :
            /\ (/\ wk[w].pc = "wh_fetch" /\ wk'[w] # wk[w]
                /\ wk'[w].pedido_id \in Orders
                /\ pedidos[wk'[w].pedido_id].status = "pending"
                /\ wk'[w].status # "approved") =>
                    /\ wk'[w].pc = "reply" /\ wk'[w].resp = 200
                    /\ store' = store
                    /\ ghosts' = ghosts
                    /\ pedidos'[wk'[w].pedido_id].status = "pending"
                    /\ pedidos'[wk'[w].pedido_id].mp_payment_id = ""
            /\ (wk[w].pc = "reply" /\ wk[w].kind = "webhook" /\ wk'[w] # wk[w]) =>
                    wk'[w] = Idle /\ store' = store /\ ghosts' = ghosts ]_vars

\* A delivery whose record says "rejected" has been answered 200 for an order
\* that is still pending, with no payment reference, no dispatch and no token.
C14_Witness ==
    \E o \in Orders, w \in Workers :
        /\ wk[w].pc = "reply" /\ wk[w].kind = "webhook" /\ wk[w].resp = 200
        /\ wk[w].pedido_id = o /\ wk[w].status = "rejected"
        /\ pedidos[o].status = "pending" /\ pedidos[o].mp_payment_id = ""
        /\ dispatches[o] = 0 /\ emails_sent[o] = 0
        /\ AccessTokensFor(o) = {}
        /\ \A f \in FichaIds : TokensFor(o, f) = {}

\* C15: when the dispatcher has been through the items and no e-mail goes out
\* (send_email returns False, or raises), the delivery is still answered 200
\* and nothing committed is undone: the order is paid, its access token and the
\* download tokens are in the store, and each download token that is below its
\* ceiling, not past its expiry and of an active item with a file passes the
\* gateway's checks.
C15_MailFailureUndoesNothing ==
    [][ \A w \in Workers :
            (/\ wk[w].kind = "webhook" /\ wk[w].pc = "gl_items" /\ wk[w].todo = <<>>
             /\ wk'[w] # wk[w]
             /\ emails_sent' = emails_sent) =>
                LET o == wk[w].pedido_id IN
                /\ wk'[w].pc = "reply" /\ wk'[w].resp = 200
                /\ store' = store
                /\ pedidos'[o].status = "paid"
                /\ AccessTokensFor(o) # {}
                /\ \A t \in Tokens :
                    (/\ download_tokens[t].pedido_id = o
                     /\ Redeemable(download_tokens[t])
                     /\ download_tokens[t].downloads < download_tokens[t].max_downloads) =>
                        DownloadCheck(t) = None ]_vars

\* A download with a token of an order whose e-mail never went out has been
\* answered 302.
C15_Witness ==
    \E w \in Workers :
        /\ wk[w].pc = "reply" /\ wk[w].kind = "download" /\ wk[w].resp = 302
        /\ wk[w].tok \in Tokens
        /\ LET o == download_tokens[wk[w].tok].pedido_id IN
            /\ pedidos[o].status = "paid"
            /\ dispatches[o] = 1 /\ emails_sent[o] = 0
            /\ AccessTokensFor(o) # {}
            /\ \A i \in 1..Len(ItemFichas(o)) : TokensFor(o, ItemFichas(o)[i]) # {}

TakesPage(w) == IsIdle(w) /\ wk'[w].kind = "minha_compra"

\* C16: the order-access page answers 404 for an unknown token, else 410 for
\* one past its expiry, else 403 for an unpaid order, and otherwise always goes
\* on to its items (no count of views exists).  For each item whose catalog
\* item has a file it reuses a still valid download token or, finding none,
\* inserts one with counter 0; it renders with a token below its ceiling for
\* every such item; and no step of it changes an order or an existing token.
C16_PageSelfHeals ==
    [][ \A w \in Workers :
        /\ TakesPage(w) =>
            LET tok == wk'[w].tok
                known == tok \in 1..Len(pedido_access_tokens)
                pt == pedido_access_tokens[tok]
                expired == now > pt.expira_em
                paid == pedidos[pt.pedido_id].status = "paid"
            IN  /\ ~known => Refusal(w) = 404
                /\ (known /\ expired) => Refusal(w) = 410
                /\ (known /\ ~expired /\ ~paid) => Refusal(w) = 403
                /\ (known /\ ~expired /\ paid) =>
                        /\ wk'[w].pc = "mc_items"
                        /\ wk'[w].pedido_id = pt.pedido_id
                        /\ wk'[w].todo = ItemFichas(pt.pedido_id)
                /\ store' = store
        /\ (wk[w].kind = "minha_compra" /\ wk'[w] # wk[w]) =>
            LET o == wk[w].pedido_id IN
            /\ pedidos' = pedidos /\ pedido_itens' = pedido_itens
            /\ pedido_access_tokens' = pedido_access_tokens
            /\ \A t \in Tokens : download_tokens'[t] = download_tokens[t]
            /\ (wk[w].pc = "mc_items" /\ wk[w].todo # <<>>) =>
                    LET f == Head(wk[w].todo) IN
                    /\ download_tokens' = download_tokens
                    /\ IF fichas[f].file_key /\ ValidTokensFor(o, f) = {}
                       THEN wk'[w].pc = "dt_insert" /\ wk'[w].ficha = f
                       ELSE wk'[w].pc = "mc_items"
            /\ wk[w].pc = "dt_insert" =>
                    /\ Len(download_tokens') = Len(download_tokens) + 1
                    /\ LET t == download_tokens'[Len(download_tokens')] IN
                        /\ t.pedido_id = o /\ t.ficha_id = wk[w].ficha
                        /\ t.downloads = 0 /\ t.max_downloads = DownloadMax
                        /\ t.expira_em = wk[w].t0 + DownloadTokenDays
                    /\ wk'[w].pc = "mc_items"
            /\ (wk[w].pc = "mc_items" /\ wk[w].todo = <<>>) =>
                    /\ wk'[w].pc = "reply" /\ wk'[w].resp = 200
                    /\ \A i \in 1..Len(ItemFichas(o)) :
                        FileKept(ItemFichas(o)[i]) =>
                            \E t \in TokensFor(o, ItemFichas(o)[i]) :
                                download_tokens[t].downloads
                                    < download_tokens[t].max_downloads ]_vars

\* The page has been rendered after it replaced a download token that was no
\* longer valid: the item has two tokens, one of them still valid.
C16_Witness ==
    \E w \in Workers, f \in FichaIds :
        /\ wk[w].pc = "reply" /\ wk[w].kind = "minha_compra" /\ wk[w].resp = 200
        /\ wk[w].pedido_id \in Orders
        /\ Cardinality(TokensFor(wk[w].pedido_id, f)) = 2
        /\ Cardinality(ValidTokensFor(wk[w].pedido_id, f)) = 1

\* The least an e-mail address must have to be plausible: an "@" with something
\* before it and something after it.
PlausibleAddress(e) == \E i \in 2..(Len(e) - 1) : e[i] = "@"

\* C17: a checkout with an empty cart, or a cart with no active catalog item,
\* or an address that is not plausible, creates no order and no line item and
\* leaves the cart as it was; every order is created pending, with at least
\* one line item (and so with a plausible address).
C17_InvalidCheckoutCreatesNothing ==
    [][ /\ \A w \in Workers : (IsIdle(w) /\ wk'[w].kind = "checkout") =>
            /\ (cart = <<>> \/ CartFichas = <<>>) =>
                    /\ pedidos' = pedidos /\ pedido_itens' = pedido_itens
                    /\ cart' = cart
            /\ wk'[w].pc = "reply" =>
                    /\ pedidos' = pedidos /\ pedido_itens' = pedido_itens
                    /\ cart' = cart
        /\ \A o \in (1..Len(pedidos')) \ Orders :
            /\ pedidos'[o].status = "pending"
            /\ Len(SnapshotPrices(o)') >= 1
            /\ PlausibleAddress(pedidos'[o].email) ]_vars

\* C18: under parallel downloads no increment is lost: the counter stored for
\* a token is the number of requests for it that passed the checks and
\* committed.
C18_NoLostIncrement ==
    \A t \in Tokens : download_tokens[t].downloads = redeemed[t]

\* C19: no step deletes an order or a token or changes an existing access
\* token; of an existing download token only the counter changes, and only by
\* the commit of a download of that token.
C19_TokensImmutableButCounter ==
    [][ /\ Len(pedidos') >= Len(pedidos)
        /\ Len(pedido_access_tokens') >= Len(pedido_access_tokens)
        /\ Len(download_tokens') >= Len(download_tokens)
        /\ \A t \in 1..Len(pedido_access_tokens) :
            pedido_access_tokens'[t] = pedido_access_tokens[t]
        /\ \A t \in Tokens :
            /\ download_tokens'[t] =
                    [download_tokens[t] EXCEPT !.downloads = download_tokens'[t].downloads]
            /\ download_tokens'[t].downloads # download_tokens[t].downloads =>
                    \E w \in Workers :
                        /\ wk[w].kind = "download" /\ wk[w].pc = "dl_commit"
                        /\ wk[w].tok = t
                        /\ wk'[w].pc = "reply" ]_vars

\* The order-access page has been rendered with both download tokens in the
\* store, one of them already used, after the clock has moved.
C19_Witness ==
    \E w \in Workers :
        /\ wk[w].pc = "reply" /\ wk[w].kind = "minha_compra" /\ wk[w].resp = 200
        /\ Len(download_tokens) = 2
        /\ \E t \in Tokens : download_tokens[t].downloads >= 1
        /\ now >= 1

\* C20: under any interleaving every download token has 0 <= downloads <=
\* max_downloads, and no step lowers a token's downloads.
C20_CounterBoundedMonotone ==
    [][ /\ \A t \in 1..Len(download_tokens') :
            /\ 0 <= download_tokens'[t].downloads
            /\ download_tokens'[t].downloads <= download_tokens'[t].max_downloads
        /\ \A t \in Tokens :
            download_tokens'[t].downloads >= download_tokens[t].downloads ]_vars

\* A delivery is between its write of status=paid and its answer, for order o.
Dispatching(o) ==
    \E w \in Workers :
        /\ wk[w].kind = "webhook" /\ wk[w].pedido_id = o
        /\ wk[w].pc \in {"wh_commit", "gl_start", "pt_insert", "gl_items", "dt_insert"}

\* C21: with deliveries served one after another, the dispatcher is called
\* only by the delivery that has just taken the order from pending to paid, and
\* once; whatever becomes of that call the order stays paid, every later
\* delivery for the order is answered at the already-paid check without a call
\* of the dispatcher, and so an e-mail is sent by that first call or never.
C21_FulfillmentNeverRetried ==
    [][ \A o \in Orders :
        /\ dispatches'[o] # dispatches[o] =>
            /\ dispatches[o] = 0 /\ dispatches'[o] = 1
            /\ paid_transitions[o] = 1
            /\ \E w \in Workers : wk[w].pc = "gl_start" /\ wk[w].pedido_id = o
        /\ pedidos[o].status = "paid" => pedidos'[o].status = "paid"
        /\ \A w \in Workers :
            (/\ wk[w].pc = "wh_fetch" /\ wk'[w] # wk[w]
             /\ wk'[w].pedido_id = o
             /\ pedidos[o].status = "paid") =>
                /\ wk'[w].pc = "reply" /\ wk'[w].resp = 200
                /\ dispatches' = dispatches
                /\ emails_sent' = emails_sent
                /\ store' = store
        /\ emails_sent'[o] # emails_sent[o] =>
            /\ emails_sent[o] = 0 /\ dispatches[o] = 1
            /\ \E w \in Workers :
                /\ wk[w].kind = "webhook" /\ wk[w].pc = "gl_items"
                /\ wk[w].pedido_id = o
        /\ (pedidos[o].status = "paid" /\ ~Dispatching(o)) =>
                /\ emails_sent'[o] = emails_sent[o]
                /\ dispatches'[o] = dispatches[o]
                /\ ~Dispatching(o)' ]_vars

\* The dispatcher of an order failed before it had inserted any token, and a
\* later approved delivery for the order has been answered: still one call of
\* the dispatcher, no e-mail, no token.
C21_Witness ==
    \E o \in Orders, w \in Workers :
        /\ ApprovedDone(w, o) /\ redelivered[o]
        /\ dispatches[o] = 1 /\ emails_sent[o] = 0
        /\ AccessTokensFor(o) = {}
        /\ \A f \in FichaIds : TokensFor(o, f) = {}

\* C22: a download that has passed every check raises the token's counter by
\* one and commits it whether the storage then signs the URL (302) or is not
\* configured or fails (500); the 500 given, nothing takes the use back: the
\* counter is the number of granted requests.
C22_UseConsumedBeforeStorage ==
    [][ \A w \in Workers : (wk[w].kind = "download" /\ wk'[w] # wk[w]) =>
            LET tok == wk[w].tok IN
            /\ wk[w].pc = "dl_commit" =>
                    /\ wk'[w].pc = "reply" /\ wk'[w].resp \in {302, 500}
                    /\ download_tokens'[tok].downloads = download_tokens[tok].downloads + 1
                    /\ redeemed'[tok] = redeemed[tok] + 1
                    /\ download_tokens'[tok].downloads = redeemed'[tok]
            /\ wk[w].pc = "reply" =>
                    /\ wk'[w] = Idle
                    /\ download_tokens' = download_tokens
                    /\ redeemed' = redeemed
                    /\ wk[w].resp = 500 =>
                            \A t \in Tokens : download_tokens'[t].downloads = redeemed'[t] ]_vars

\* A granted download has ended in a 500 and its use is counted.
C22_Witness ==
    \E w \in Workers :
        /\ wk[w].pc = "reply" /\ wk[w].kind = "download" /\ wk[w].resp = 500
        /\ wk[w].tok \in Tokens
        /\ download_tokens[wk[w].tok].downloads = 1
        /\ redeemed[wk[w].tok] = 1

\* C23: an order's mp_payment_id is empty while the order is pending, is set
\* by the step that makes the order paid, to the payment id of the delivery
\* making that step, and never changes once the order is paid, however the
\* deliveries interleave.
C23_PaymentReferenceSetOnce ==
    [][ /\ \A o \in 1..Len(pedidos') :
            pedidos'[o].status = "pending" => pedidos'[o].mp_payment_id = ""
        /\ \A o \in Orders :
            /\ (pedidos[o].status = "pending" /\ pedidos'[o].status = "paid") =>
                    \E w \in Workers :
                        /\ wk[w].pc = "wh_commit" /\ wk[w].pedido_id = o
                        /\ wk'[w].pc = "gl_start"
                        /\ pedidos'[o].mp_payment_id = wk[w].payment_id
                        /\ wk[w].payment_id \in PaymentIds
            /\ pedidos[o].status = "paid" =>
                    pedidos'[o].mp_payment_id = pedidos[o].mp_payment_id ]_vars

\* C24: when the call that creates the preference fails (the provider has
\* registered nothing for the order), the checkout ends in a 500 and the order
\* and its line items, committed before, stay as they are: status pending, no
\* preference id; the cart is not cleared and the order has no token.
C24_PreferenceFailureKeepsOrder ==
    [][ \A w \in Workers :
            (/\ wk[w].pc = "co_pref" /\ wk'[w] # wk[w]
             /\ str(wk[w].pedido_id) \notin mp_refs') =>
                LET o == wk[w].pedido_id IN
                /\ wk'[w].pc = "reply" /\ wk'[w].resp = 500
                /\ store' = store
                /\ o \in Orders
                /\ pedidos'[o].status = "pending"
                /\ pedidos'[o].mp_preference_id = ""
                /\ Len(ItemFichas(o)') >= 1
                /\ cart' = cart /\ cart' # <<>>
                /\ AccessTokensFor(o)' = {}
                /\ \A f \in FichaIds : TokensFor(o, f)' = {} ]_vars

\* A checkout has ended in a 500 after its order was committed: the order is
\* pending without a preference id, its items are there, the cart is not empty.
C24_Witness ==
    \E w \in Workers :
        /\ wk[w].pc = "reply" /\ wk[w].kind = "checkout" /\ wk[w].resp = 500
        /\ wk[w].pedido_id \in Orders
        /\ pedidos[wk[w].pedido_id].status = "pending"
        /\ pedidos[wk[w].pedido_id].mp_preference_id = ""
        /\ ItemFichas(wk[w].pedido_id) # <<>>
        /\ cart # <<>>
        /\ str(wk[w].pedido_id) \notin mp_refs

====
